---- MODULE Spec2Model ----
(***************************************************************************)
(* CountDownLatch of package congo (countdownlatch.go).                     *)
(*                                                                         *)
(* The latch is a mutex m, an unsigned counter remainingCount and a        *)
(* channel countDownCompleteCh that is closed when the count down is       *)
(* complete.  Tasks (goroutines) call Count, CountDown, WeightedCountDown, *)
(* Complete, Wait and WaitTimeout concurrently.  Every statement that      *)
(* reads or writes shared state is one step of the calling task.           *)
(***************************************************************************)
EXTENDS Integers, FiniteSets, Sequences, TLC

\* ------------------------------------------------------------------ bounds
\* Number of concurrent goroutines sharing the latch.
NumTasks == 2
\* Width of Go's uint in the model (the arithmetic is modulo 2^UintBits).
UintBits == 2
\* Timers of returned WaitTimeout calls that are pending at any one time.
MaxOrphans == 1

Tasks == 1..NumTasks
NoTask == 0

RECURSIVE Pow2(_)
Pow2(n) == IF n = 0 THEN 1 ELSE 2 * Pow2(n - 1)

UintModulus == Pow2(UintBits)
MaxUint == UintModulus - 1
Uint == 0..MaxUint

\* ------------------------------------------------------------- vocabulary
\* ErrCountDownLatchCompleted (errors.go) and the nil error.
ErrCountDownLatchCompleted == "ErrCountDownLatchCompleted"
Nil == "nil"
\* No value: the call has not returned (or the task has not called yet).
NoRet == "none"

DecrementOps == {"CountDown", "WeightedCountDown", "Complete"}
GuardedOps == DecrementOps \cup {"Count"}
WaitOps == {"Wait", "WaitTimeout"}
Ops == GuardedOps \cup WaitOps

\* The counts latches are created with and the weights goroutines count down
\* by: none, one, two, and the largest uint.
Counts == {0, 1, 2, MaxUint}
Weights == {0, 1, 2, MaxUint}

\* The calls a goroutine can make: <<operation, argument>>.  The argument is
\* the weight of WeightedCountDown, and for WaitTimeout 0 stands for a
\* duration <= 0 and 1 for a positive duration.
AllCalls ==
    {<<"Count", 0>>, <<"CountDown", 0>>, <<"Complete", 0>>, <<"Wait", 0>>}
        \cup {<<"WeightedCountDown", w>> : w \in Weights}
        \cup {<<"WaitTimeout", d>> : d \in {0, 1}}

VARIABLES
    remainingCount,   \* latch.remainingCount
    closed,           \* countDownCompleteCh is closed
    m,                \* latch.m: the task holding the mutex, or NoTask
    pc,               \* pc[t]: where task t is in its current call
    op,               \* op[t]: the operation of t's current call
    arg,              \* arg[t]: the weight / timeout t's current call is given
    weight,           \* weight[t]: the weight t's call hands to doCountDown
    ret,              \* ret[t]: the value t's current call returns
    cnt,              \* cnt[t]: the uint t's current Count() returns
    timer,            \* timer[t]: the time.After timer of t's WaitTimeout
    orphans,          \* pending timers of WaitTimeout calls that returned
    panicked,         \* a close of a closed channel panicked
    todo,             \* todo[t]: t's program, a sequence of sets of calls
    loops,            \* loops[t]: t starts its program over at its end
    ip,               \* ip[t]: the step of its program t is to make next
    initialCount,     \* the count given to NewCountDownLatch
    closeCount,       \* executions of close(countDownCompleteCh)
    counted,          \* a call has run doCountDown's default case
    completeAtCall    \* completeAtCall[t]: the channel was closed when t called

vars == <<remainingCount, closed, m, pc, op, arg, weight, ret, cnt, timer,
          orphans, panicked, todo, loops, ip, initialCount, closeCount,
          counted, completeAtCall>>

\* Variant of USub: the count is added to instead of subtracted from.
USubAdds(a, b) == (a + b) % UintModulus

\* Go's unsigned subtraction: wraps around modulo 2^width.
USub(a, b) == (a - b + UintModulus) % UintModulus

\* ------------------------------------------------------------ constructor
\* Variant of NewCountDownLatch: the channel of a latch created with count 0
\* is left open.
NewCountDownLatchLeftOpen(count) ==
    [remainingCount |-> count, closed |-> FALSE, closeCount |-> 0]

\* NewCountDownLatch(count): the latch as the constructor returns it.
NewCountDownLatch(count) ==
    [remainingCount |-> count,
     closed |-> (count = 0),
     closeCount |-> IF count = 0 THEN 1 ELSE 0]

\* The state after NewCountDownLatch(n), with no call made yet.  prog[t] is
\* the program of goroutine t: <<its steps, whether it starts over>>, where a
\* step is the set of calls the goroutine makes one of.
InitLatch(n, prog) ==
    /\ remainingCount = NewCountDownLatch(n).remainingCount
    /\ closed = NewCountDownLatch(n).closed
    /\ closeCount = NewCountDownLatch(n).closeCount
    /\ initialCount = n
    /\ counted = FALSE
    /\ m = NoTask
    /\ pc = [t \in Tasks |-> "idle"]
    /\ op = [t \in Tasks |-> "none"]
    /\ arg = [t \in Tasks |-> 0]
    /\ weight = [t \in Tasks |-> 0]
    /\ ret = [t \in Tasks |-> NoRet]
    /\ cnt = [t \in Tasks |-> 0]
    /\ timer = [t \in Tasks |-> "none"]
    /\ orphans = 0
    /\ panicked = FALSE
    /\ todo = [t \in Tasks |-> prog[t][1]]
    /\ loops = [t \in Tasks |-> prog[t][2]]
    /\ ip = [t \in Tasks |-> 1]
    /\ completeAtCall = [t \in Tasks |-> FALSE]

\* Any count; every goroutine makes any calls, any number of times.
Init ==
    \E n \in Counts : InitLatch(n, [t \in Tasks |-> <<(<<AllCalls>>), TRUE>>])

\* ------------------------------------------------------------------ calls
\* Task t calls an operation of the latch.  WaitTimeout evaluates
\* time.After(timeout) on entering its select: a duration <= 0 gives a timer
\* that has already expired.
Call(t) ==
    /\ ~panicked
    /\ pc[t] = "idle"
    /\ ip[t] <= Len(todo[t])
    /\ \E c \in todo[t][ip[t]] :
        /\ op' = [op EXCEPT ![t] = c[1]]
        /\ arg' = [arg EXCEPT ![t] = c[2]]
        /\ pc' = [pc EXCEPT ![t] =
                    IF c[1] \in GuardedOps THEN "lock"
                    ELSE IF c[1] = "Wait" THEN "wait" ELSE "select"]
        /\ timer' = [timer EXCEPT ![t] =
                    IF c[1] = "WaitTimeout"
                    THEN (IF c[2] = 0 THEN "fired" ELSE "pending")
                    ELSE "none"]
    /\ ip' = [ip EXCEPT ![t] =
                IF loops[t] /\ @ = Len(todo[t]) THEN 1 ELSE @ + 1]
    /\ completeAtCall' = [completeAtCall EXCEPT ![t] = closed]
    /\ UNCHANGED <<remainingCount, closed, m, weight, ret, cnt, orphans,
                   panicked, todo, loops, initialCount, closeCount, counted>>

\* Variant of Lock: the mutex does not exclude (the task goes on although
\* another holds it).
LockNotExclusive(t) ==
    /\ ~panicked
    /\ pc[t] = "lock"
    /\ m' = t
    /\ pc' = [pc EXCEPT ![t] = IF op[t] = "Count" THEN "read" ELSE "weight"]
    /\ UNCHANGED <<remainingCount, closed, op, arg, weight, ret, cnt, timer,
                   orphans, panicked, todo, loops, ip, initialCount,
                   closeCount, counted, completeAtCall>>

\* latch.m.Lock(): blocks while another task holds the mutex.
Lock(t) ==
    /\ ~panicked
    /\ pc[t] = "lock"
    /\ m = NoTask
    /\ m' = t
    /\ pc' = [pc EXCEPT ![t] = IF op[t] = "Count" THEN "read" ELSE "weight"]
    /\ UNCHANGED <<remainingCount, closed, op, arg, weight, ret, cnt, timer,
                   orphans, panicked, todo, loops, ip, initialCount,
                   closeCount, counted, completeAtCall>>

\* Variant of CountRead: Count returns the count the latch was created with.
CountReadInitial(t) ==
    /\ ~panicked
    /\ pc[t] = "read"
    /\ cnt' = [cnt EXCEPT ![t] = initialCount]
    /\ ret' = [ret EXCEPT ![t] = "uint"]
    /\ pc' = [pc EXCEPT ![t] = "unlock"]
    /\ UNCHANGED <<remainingCount, closed, m, op, arg, weight, timer,
                   orphans, panicked, todo, loops, ip, initialCount,
                   closeCount, counted, completeAtCall>>

\* Count: return latch.remainingCount (read under the mutex).
CountRead(t) ==
    /\ ~panicked
    /\ pc[t] = "read"
    /\ cnt' = [cnt EXCEPT ![t] = remainingCount]
    /\ ret' = [ret EXCEPT ![t] = "uint"]
    /\ pc' = [pc EXCEPT ![t] = "unlock"]
    /\ UNCHANGED <<remainingCount, closed, m, op, arg, weight, timer,
                   orphans, panicked, todo, loops, ip, initialCount,
                   closeCount, counted, completeAtCall>>

\* Variant of WeightOf: WeightedCountDown takes a weight of 0 for the
\* default weight of 1.
WeightOfZeroAsOne(o, a, r) ==
    CASE o = "CountDown" -> 1
      [] o = "WeightedCountDown" -> IF a = 0 THEN 1 ELSE a
      [] o = "Complete" -> r

\* Variant of WeightOf: Complete counts down by 1, like CountDown.
WeightOfCompleteByOne(o, a, r) ==
    CASE o = "CountDown" -> 1
      [] o = "WeightedCountDown" -> a
      [] o = "Complete" -> 1

\* Variant of WeightOf: WeightedCountDown counts down by 1 whatever its
\* weight.
WeightOfAlwaysOne(o, a, r) ==
    CASE o = "CountDown" -> 1
      [] o = "WeightedCountDown" -> 1
      [] o = "Complete" -> r

\* The weight operation o with argument a hands to doCountDown when the
\* remaining count is r: 1 for CountDown, the argument for WeightedCountDown,
\* latch.remainingCount for Complete.
WeightOf(o, a, r) ==
    CASE o = "CountDown" -> 1
      [] o = "WeightedCountDown" -> a
      [] o = "Complete" -> r

\* The caller evaluates the weight (under the mutex) and calls doCountDown.
Weight(t) ==
    /\ ~panicked
    /\ pc[t] = "weight"
    /\ weight' = [weight EXCEPT ![t] = WeightOf(op[t], arg[t], remainingCount)]
    /\ pc' = [pc EXCEPT ![t] = "check"]
    /\ UNCHANGED <<remainingCount, closed, m, op, arg, ret, cnt, timer,
                   orphans, panicked, todo, loops, ip, initialCount,
                   closeCount, counted, completeAtCall>>

\* Variant of Completed: doCountDown has no select and always runs its
\* default case.
CompletedNever(t) == FALSE

\* Variant of Completed: a weight of 0 is let through after completion.
CompletedUnlessZero(t) == closed /\ weight[t] > 0

\* doCountDown's select, run by task t: the case receiving from
\* countDownCompleteCh is ready when the channel is closed.
Completed(t) == closed

\* Variant of Check: the error path returns without the deferred Unlock.
CheckReturnsLocked(t) ==
    /\ ~panicked
    /\ pc[t] = "check"
    /\ IF Completed(t)
       THEN /\ pc' = [pc EXCEPT ![t] = "idle"]
            /\ op' = [op EXCEPT ![t] = "none"]
            /\ arg' = [arg EXCEPT ![t] = 0]
            /\ weight' = [weight EXCEPT ![t] = 0]
            /\ completeAtCall' = [completeAtCall EXCEPT ![t] = FALSE]
       ELSE /\ pc' = [pc EXCEPT ![t] = "compare"]
            /\ UNCHANGED <<op, arg, weight, completeAtCall>>
    /\ UNCHANGED <<remainingCount, closed, m, ret, cnt, timer, orphans,
                   panicked, todo, loops, ip, initialCount, closeCount,
                   counted>>

\* doCountDown's select: the receive from a closed channel is ready and
\* returns ErrCountDownLatchCompleted, otherwise the default case runs.
Check(t) ==
    /\ ~panicked
    /\ pc[t] = "check"
    /\ IF Completed(t)
       THEN /\ ret' = [ret EXCEPT ![t] = ErrCountDownLatchCompleted]
            /\ pc' = [pc EXCEPT ![t] = "unlock"]
       ELSE /\ ret' = ret
            /\ pc' = [pc EXCEPT ![t] = "compare"]
    /\ UNCHANGED <<remainingCount, closed, m, op, arg, weight, cnt, timer,
                   orphans, panicked, todo, loops, ip, initialCount,
                   closeCount, counted, completeAtCall>>

\* Variant of WeightIsLess: every decrement sets the count to 0 and closes.
WeightIsLessNever(r, w) == FALSE

\* Variant of WeightIsLess: the weight is subtracted whatever the count.
WeightIsLessAlways(r, w) == TRUE

\* Variant of WeightIsLess: a weight equal to the count is subtracted too.
WeightIsLessOrEqual(r, w) == r >= w

\* doCountDown's test: latch.remainingCount > weight.
WeightIsLess(r, w) == r > w

\* doCountDown's default case: the if statement sends the task to subtract
\* the weight when it is less than the remaining count, else to set the
\* count to 0 and close the channel.
Compare(t) ==
    /\ ~panicked
    /\ pc[t] = "compare"
    /\ counted' = TRUE
    /\ pc' = [pc EXCEPT ![t] =
                IF WeightIsLess(remainingCount, weight[t])
                THEN "subtract" ELSE "zero"]
    /\ UNCHANGED <<remainingCount, closed, m, op, arg, weight, ret, cnt,
                   timer, orphans, panicked, todo, loops, ip, initialCount,
                   closeCount, completeAtCall>>

\* latch.remainingCount -= weight, and return nil.
Subtract(t) ==
    /\ ~panicked
    /\ pc[t] = "subtract"
    /\ remainingCount' = USub(remainingCount, weight[t])
    /\ ret' = [ret EXCEPT ![t] = Nil]
    /\ pc' = [pc EXCEPT ![t] = "unlock"]
    /\ UNCHANGED <<closed, m, op, arg, weight, cnt, timer, orphans, panicked,
                   todo, loops, ip, initialCount, closeCount, counted,
                   completeAtCall>>

\* Variant of Zero: the else branch closes the channel without setting the
\* count to 0.
ZeroKeepsCount(t) ==
    /\ ~panicked
    /\ pc[t] = "zero"
    /\ pc' = [pc EXCEPT ![t] = "close"]
    /\ UNCHANGED <<remainingCount, closed, m, op, arg, weight, ret, cnt,
                   timer, orphans, panicked, todo, loops, ip, initialCount,
                   closeCount, counted, completeAtCall>>

\* latch.remainingCount = 0
Zero(t) ==
    /\ ~panicked
    /\ pc[t] = "zero"
    /\ remainingCount' = 0
    /\ pc' = [pc EXCEPT ![t] = "close"]
    /\ UNCHANGED <<closed, m, op, arg, weight, ret, cnt, timer, orphans,
                   panicked, todo, loops, ip, initialCount, closeCount,
                   counted, completeAtCall>>

\* close(latch.countDownCompleteCh); closing a closed channel panics.
Close(t) ==
    /\ ~panicked
    /\ pc[t] = "close"
    /\ panicked' = closed
    /\ closed' = TRUE
    /\ closeCount' = closeCount + 1
    /\ ret' = [ret EXCEPT ![t] = Nil]
    /\ pc' = [pc EXCEPT ![t] = "unlock"]
    /\ UNCHANGED <<remainingCount, m, op, arg, weight, cnt, timer, orphans,
                   todo, loops, ip, initialCount, counted, completeAtCall>>

\* The deferred latch.m.Unlock() and the return to the caller.
Unlock(t) ==
    /\ ~panicked
    /\ pc[t] = "unlock"
    /\ m' = NoTask
    /\ pc' = [pc EXCEPT ![t] = "idle"]
    /\ op' = [op EXCEPT ![t] = "none"]
    /\ arg' = [arg EXCEPT ![t] = 0]
    /\ weight' = [weight EXCEPT ![t] = 0]
    /\ ret' = [ret EXCEPT ![t] = NoRet]
    /\ cnt' = [cnt EXCEPT ![t] = 0]
    /\ completeAtCall' = [completeAtCall EXCEPT ![t] = FALSE]
    /\ UNCHANGED <<remainingCount, closed, timer, orphans, panicked,
                   todo, loops, ip, initialCount, closeCount, counted>>

\* Variant of Wait: the receive takes the signal, as it would a value sent
\* on the channel, and the next receive blocks.
WaitConsumes(t) ==
    /\ ~panicked
    /\ pc[t] = "wait"
    /\ closed
    /\ closed' = FALSE
    /\ ret' = [ret EXCEPT ![t] = "void"]
    /\ pc' = [pc EXCEPT ![t] = "done"]
    /\ UNCHANGED <<remainingCount, m, op, arg, weight, cnt, timer,
                   orphans, panicked, todo, loops, ip, initialCount,
                   closeCount, counted, completeAtCall>>

\* Variant of Wait: the receive does not block on an open channel.
WaitNotBlocking(t) ==
    /\ ~panicked
    /\ pc[t] = "wait"
    /\ ret' = [ret EXCEPT ![t] = "void"]
    /\ pc' = [pc EXCEPT ![t] = "done"]
    /\ UNCHANGED <<remainingCount, closed, m, op, arg, weight, cnt, timer,
                   orphans, panicked, todo, loops, ip, initialCount,
                   closeCount, counted, completeAtCall>>

\* Wait: <-latch.countDownCompleteCh, ready once the channel is closed.
Wait(t) ==
    /\ ~panicked
    /\ pc[t] = "wait"
    /\ closed
    /\ ret' = [ret EXCEPT ![t] = "void"]
    /\ pc' = [pc EXCEPT ![t] = "done"]
    /\ UNCHANGED <<remainingCount, closed, m, op, arg, weight, cnt, timer,
                   orphans, panicked, todo, loops, ip, initialCount,
                   closeCount, counted, completeAtCall>>

\* Variant of TimerFire: nothing is ever sent on the channel of the select's
\* timeout case.
TimerFireNever(t) ==
    /\ FALSE
    /\ UNCHANGED vars

\* The runtime fires the timer of task t's WaitTimeout: its channel becomes
\* ready for the select.
TimerFire(t) ==
    /\ ~panicked
    /\ timer[t] = "pending"
    /\ timer' = [timer EXCEPT ![t] = "fired"]
    /\ UNCHANGED <<remainingCount, closed, m, pc, op, arg, weight, ret, cnt,
                   orphans, panicked, todo, loops, ip, initialCount,
                   closeCount, counted, completeAtCall>>

\* WaitTimeout's select: blocks until a case is ready; when both are ready
\* Go picks one of them.  The timer is not stopped: one still pending when
\* the call returns true stays with the runtime until it fires.
WaitTimeoutSelect(t) ==
    /\ ~panicked
    /\ pc[t] = "select"
    /\ timer[t] = "pending" => orphans < MaxOrphans
    /\ \E r \in {b \in BOOLEAN : IF b THEN closed ELSE timer[t] = "fired"} :
        ret' = [ret EXCEPT ![t] = IF r THEN "true" ELSE "false"]
    /\ orphans' = IF timer[t] = "pending" THEN orphans + 1 ELSE orphans
    /\ timer' = [timer EXCEPT ![t] = "none"]
    /\ pc' = [pc EXCEPT ![t] = "done"]
    /\ UNCHANGED <<remainingCount, closed, m, op, arg, weight, cnt, panicked,
                   todo, loops, ip, initialCount, closeCount, counted,
                   completeAtCall>>

\* The runtime fires the timer of a WaitTimeout that has returned; nobody
\* receives from its channel.
OrphanFire ==
    /\ ~panicked
    /\ orphans > 0
    /\ orphans' = orphans - 1
    /\ UNCHANGED <<remainingCount, closed, m, pc, op, arg, weight, ret, cnt,
                   timer, panicked, todo, loops, ip, initialCount,
                   closeCount, counted, completeAtCall>>

\* Wait and WaitTimeout return to the caller.
Return(t) ==
    /\ ~panicked
    /\ pc[t] = "done"
    /\ pc' = [pc EXCEPT ![t] = "idle"]
    /\ op' = [op EXCEPT ![t] = "none"]
    /\ arg' = [arg EXCEPT ![t] = 0]
    /\ ret' = [ret EXCEPT ![t] = NoRet]
    /\ completeAtCall' = [completeAtCall EXCEPT ![t] = FALSE]
    /\ UNCHANGED <<remainingCount, closed, m, weight, cnt, timer, orphans,
                   panicked, todo, loops, ip, initialCount, closeCount,
                   counted>>

Next ==
    \/ \E t \in Tasks : Call(t)
    \/ \E t \in Tasks : Lock(t)
    \/ \E t \in Tasks : CountRead(t)
    \/ \E t \in Tasks : Weight(t)
    \/ \E t \in Tasks : Check(t)
    \/ \E t \in Tasks : Compare(t)
    \/ \E t \in Tasks : Subtract(t)
    \/ \E t \in Tasks : Zero(t)
    \/ \E t \in Tasks : Close(t)
    \/ \E t \in Tasks : Unlock(t)
    \/ \E t \in Tasks : Wait(t)
    \/ \E t \in Tasks : TimerFire(t)
    \/ \E t \in Tasks : WaitTimeoutSelect(t)
    \/ \E t \in Tasks : Return(t)
    \/ OrphanFire

Spec == Init /\ [][Next]_vars

\* -------------------------------------------------------------- scenarios
\* What a goroutine does besides counting down: it reads the count, waits
\* with a timeout, then waits for the count down to complete.
ObserverProgram ==
    <<{<<"Count", 0>>}, {<<"WaitTimeout", 1>>}, {<<"Wait", 0>>}>>

\* A goroutine that makes the decrement call c once, then observes.
ProducerProgram(c) == <<{c}>> \o ObserverProgram

\* N goroutines call CountDown once each on a latch created with count N
\* (the other goroutines only observe), for every N from 1 to NumTasks.
InitCountDownN ==
    \E P \in SUBSET Tasks :
        /\ P # {}
        /\ InitLatch(Cardinality(P),
                     [t \in Tasks |->
                        IF t \in P
                        THEN <<ProducerProgram(<<"CountDown", 0>>), FALSE>>
                        ELSE <<ObserverProgram, FALSE>>])

SpecCountDownN == InitCountDownN /\ [][Next]_vars

RECURSIVE SumOver(_, _)
\* The sum of f[x] over the x in S.
SumOver(f, S) ==
    IF S = {} THEN 0
    ELSE LET x == CHOOSE y \in S : TRUE IN f[x] + SumOver(f, S \ {x})

\* A latch created with a positive count n, and one WeightedCountDown(w[t])
\* by each goroutine t given a positive weight, the weights summing to at
\* most n.
InitWeighted ==
    \E n \in Counts \ {0} : \E w \in [Tasks -> Weights] :
        /\ SumOver(w, Tasks) <= n
        /\ InitLatch(n,
                     [t \in Tasks |->
                        IF w[t] > 0
                        THEN <<ProducerProgram(<<"WeightedCountDown", w[t]>>),
                               FALSE>>
                        ELSE <<ObserverProgram, FALSE>>])

SpecWeighted == InitWeighted /\ [][Next]_vars

\* The next statement of task t's call, whichever it is, except the
\* acquisition of the mutex (the caller decides whether to make a call; the
\* mutex decides who gets it).
Progress(t) ==
    \/ CountRead(t) \/ Weight(t) \/ Check(t) \/ Compare(t) \/ Subtract(t)
    \/ Zero(t) \/ Close(t) \/ Unlock(t)
    \/ Wait(t) \/ TimerFire(t) \/ WaitTimeoutSelect(t) \/ Return(t)

\* The scheduler runs every goroutine that can run, every timer elapses, and
\* sync.Mutex hands the lock to a goroutine that keeps asking for it.
Fairness ==
    /\ \A t \in Tasks : WF_vars(Progress(t)) /\ SF_vars(Lock(t))
    /\ WF_vars(OrphanFire)

\* What a worker goroutine calls, over and over: the operations that take
\* the mutex.
WorkerCalls == {<<"Count", 0>>, <<"CountDown", 0>>, <<"Complete", 0>>}

\* What a waiter goroutine calls, over and over.
WaiterCalls == {<<"Wait", 0>>, <<"WaitTimeout", 0>>, <<"WaitTimeout", 1>>}

\* A latch of count 2 shared by workers (at least one) and waiters, under
\* fair scheduling.
InitFair ==
    \E P \in SUBSET Tasks :
        /\ P # {}
        /\ InitLatch(2, [t \in Tasks |->
                IF t \in P THEN <<(<<WorkerCalls>>), TRUE>>
                ELSE <<(<<WaiterCalls>>), TRUE>>])

SpecFair == InitFair /\ [][Next]_vars /\ Fairness

\* A goroutine that waits for the count down with call c, then reads the
\* count, over and over.
WaitThenCount(c) == <<{c}, {<<"Count", 0>>}>>

\* A latch of count 2 shared by workers (at least one) and by goroutines
\* that each wait, with Wait or with WaitTimeout, and then read the count.
InitReleased ==
    \E P \in SUBSET Tasks : \E k \in [Tasks -> WaiterCalls] :
        /\ P # {}
        /\ \A t \in P : k[t] = <<"Wait", 0>>
        /\ InitLatch(2, [t \in Tasks |->
                IF t \in P THEN <<(<<WorkerCalls>>), TRUE>>
                ELSE <<WaitThenCount(k[t]), TRUE>>])

SpecReleased == InitReleased /\ [][Next]_vars

\* ------------------------------------------------------------ properties
\* The task is inside the section guarded by latch.m.
InCritical(t) ==
    pc[t] \in {"read", "weight", "check", "compare", "subtract", "zero",
              "close", "unlock"}

\* Closes executed by decrement calls (all closes but the constructor's).
DecrementCloses == closeCount - NewCountDownLatch(initialCount).closeCount

\* C1: whenever no task is inside the guarded critical section, the
\* completion channel is closed if and only if remainingCount is 0.
C1_SignalIffZero ==
    (m = NoTask /\ \A t \in Tasks : ~InCritical(t))
        => (closed <=> remainingCount = 0)

\* C1 witness: a latch created with a positive count has been counted down
\* to 0, its channel is closed and no task is in the critical section.
C1_Witness ==
    /\ initialCount > 0
    /\ m = NoTask
    /\ \A t \in Tasks : ~InCritical(t)
    /\ closed
    /\ remainingCount = 0

\* C2: close(countDownCompleteCh) is never executed on a closed channel (no
\* panic, at most one close in all); the channel of a latch created with a
\* positive count, once closed, was closed by exactly one decrement call, and
\* no decrement call closes the channel of a latch created with count 0.
C2_FiresAtMostOnce ==
    /\ ~panicked
    /\ closeCount <= 1
    /\ closed <=> closeCount = 1
    /\ (initialCount > 0 /\ closed) => DecrementCloses = 1
    /\ initialCount = 0 => DecrementCloses = 0

\* C2 witness: the latch was completed by a decrement call and a later
\* Complete call has run doCountDown's select on the closed channel.
C2_Witness ==
    /\ initialCount > 0
    /\ DecrementCloses = 1
    /\ \E t \in Tasks :
        /\ op[t] = "Complete"
        /\ pc[t] = "unlock"
        /\ ret[t] = ErrCountDownLatchCompleted

\* Task t takes a step of its call from the place p.
Leaves(t, p) == pc[t] = p /\ pc'[t] # p

\* A decrement call of t that was made when the channel was already closed.
LateDecrement(t) == op[t] \in DecrementOps /\ completeAtCall[t]

C3_State ==
    \A t \in Tasks :
        LateDecrement(t) =>
            /\ closed
            /\ remainingCount = 0
            /\ pc[t] \in {"lock", "weight", "check", "unlock"}
            /\ pc[t] = "unlock" => ret[t] = ErrCountDownLatchCompleted

C3_Step ==
    \A t \in Tasks :
        /\ LateDecrement(t) =>
              (remainingCount' = remainingCount /\ closed' = closed)
        /\ (op[t] \in DecrementOps /\ Leaves(t, "check") /\ ~closed) =>
              (pc'[t] = "compare" /\ ret'[t] = NoRet)
        /\ (op[t] \in DecrementOps /\ pc[t] \in {"subtract", "close"}
                /\ pc'[t] = "unlock") => ret'[t] = Nil

\* C3: a CountDown, WeightedCountDown (of any weight, 0 included) or Complete
\* called once the latch is complete returns ErrCountDownLatchCompleted
\* without running doCountDown's default case, and remainingCount stays 0 and
\* the channel closed; a decrement call whose select finds the channel open
\* runs the default case and returns nil.
C3_ErrorOnceComplete == [](C3_State) /\ [][C3_Step]_vars

\* C3 witness: WeightedCountDown(0), called on a latch completed by a
\* decrement call, is about to return ErrCountDownLatchCompleted.
C3_Witness ==
    /\ initialCount > 0
    /\ \E t \in Tasks :
        /\ LateDecrement(t)
        /\ op[t] = "WeightedCountDown"
        /\ arg[t] = 0
        /\ pc[t] = "unlock"
        /\ ret[t] = ErrCountDownLatchCompleted

C4_Step ==
    /\ remainingCount' <= remainingCount
    /\ closed => closed'
    /\ (remainingCount = 0 /\ closed) => (remainingCount' = 0 /\ closed')

\* C4: no step increases remainingCount, and once remainingCount is 0 with
\* the channel closed no step of any operation makes the count positive or
\* reopens the channel.
C4_MonotoneAbsorbing == [][C4_Step]_vars

\* C4 witness: on a latch that was counted down from a positive count to
\* completion, a WeightedCountDown and a WaitTimeout called after completion
\* have both run.
C4_Witness ==
    /\ initialCount > 0
    /\ closed
    /\ remainingCount = 0
    /\ \E t, u \in Tasks :
        /\ completeAtCall[t]
        /\ op[t] = "WeightedCountDown"
        /\ arg[t] > 0
        /\ pc[t] = "unlock"
        /\ completeAtCall[u]
        /\ op[u] = "WaitTimeout"
        /\ pc[u] = "done"

\* WeightedCountDown(w) of t is at doCountDown's if statement with the
\* remaining count r > 0 and w >= r.
Overshoots(t) ==
    /\ op[t] = "WeightedCountDown"
    /\ pc[t] = "compare"
    /\ remainingCount > 0
    /\ arg[t] >= remainingCount

C5_State ==
    \A t \in Tasks :
        /\ remainingCount \in Uint
        /\ (op[t] = "WeightedCountDown" /\ pc[t] = "close") =>
              (remainingCount = 0 /\ ~closed)

C5_Step ==
    /\ remainingCount' <= remainingCount
    /\ \A t \in Tasks :
        /\ (Overshoots(t) /\ Leaves(t, "compare")) => pc'[t] = "zero"
        /\ (op[t] = "WeightedCountDown" /\ Leaves(t, "zero")) =>
              (remainingCount' = 0 /\ pc'[t] = "close")
        /\ (op[t] = "WeightedCountDown" /\ Leaves(t, "close")) =>
              /\ remainingCount' = 0
              /\ closed'
              /\ ~panicked'
              /\ pc'[t] = "unlock"
              /\ ret'[t] = Nil

\* C5: WeightedCountDown(w) on an incomplete latch with remaining count
\* r > 0 and w >= r sets remainingCount to exactly 0, closes the channel and
\* returns nil; remainingCount stays a uint that no step increases (no wrap
\* around), for every weight up to the largest uint.
C5_Overshoot == [](C5_State) /\ [][C5_Step]_vars

\* C5 witness: WeightedCountDown(MaxUint) on a latch created with a smaller
\* count has set the count to 0, closed the channel and is returning nil.
C5_Witness ==
    \E t \in Tasks :
        /\ op[t] = "WeightedCountDown"
        /\ arg[t] = MaxUint
        /\ initialCount > 0
        /\ initialCount < MaxUint
        /\ ~completeAtCall[t]
        /\ pc[t] = "unlock"
        /\ ret[t] = Nil
        /\ remainingCount = 0
        /\ closed

\* WeightedCountDown(0) of t is inside doCountDown on an incomplete latch.
ZeroWeightCall(t) ==
    /\ op[t] = "WeightedCountDown"
    /\ arg[t] = 0
    /\ pc[t] \in {"check", "compare", "subtract", "unlock"}
    /\ ~closed

C6_State ==
    \A t \in Tasks :
        (ZeroWeightCall(t) /\ pc[t] = "unlock") =>
            /\ ret[t] = Nil
            /\ remainingCount > 0
            /\ \A u \in Tasks : pc[u] = "wait" => ~ENABLED Wait(u)

C6_Step ==
    \A t \in Tasks :
        ZeroWeightCall(t) =>
            /\ remainingCount' = remainingCount
            /\ closed' = closed
            /\ Leaves(t, "check") => pc'[t] = "compare"
            /\ Leaves(t, "compare") => pc'[t] = "subtract"
            /\ Leaves(t, "subtract") => (pc'[t] = "unlock" /\ ret'[t] = Nil)
            /\ \A u \in Tasks : pc[u] = "wait" => pc'[u] = "wait"

\* C6: WeightedCountDown(0) on an incomplete latch returns nil, leaves
\* remainingCount unchanged (and positive), does not close the channel, and no
\* task blocked in Wait is released by it.
C6_ZeroWeightNoOp == [](C6_State) /\ [][C6_Step]_vars

\* C6 witness: WeightedCountDown(0) is returning nil on a latch that is still
\* incomplete, while another task is blocked in Wait.
C6_Witness ==
    \E t, u \in Tasks :
        /\ ZeroWeightCall(t)
        /\ pc[t] = "unlock"
        /\ ret[t] = Nil
        /\ remainingCount = initialCount
        /\ pc[u] = "wait"

\* C7: until a decrement has run, remainingCount is the count given to
\* NewCountDownLatch and Count() returns it; the channel of the new latch is
\* closed if and only if that count is 0.
C7_NewLatch ==
    ~counted =>
        /\ remainingCount = initialCount
        /\ closed <=> initialCount = 0
        /\ \A t \in Tasks :
            (op[t] = "Count" /\ pc[t] = "unlock") => cnt[t] = initialCount

\* C7 witness: on a latch created with count 0, before any decrement, Count()
\* is returning 0 and a Wait has gone through the closed channel.
C7_Witness ==
    /\ ~counted
    /\ initialCount = 0
    /\ \E t, u \in Tasks :
        /\ op[t] = "Count"
        /\ pc[t] = "unlock"
        /\ cnt[t] = 0
        /\ op[u] = "Wait"
        /\ pc[u] = "done"

C8_State ==
    \A t \in Tasks :
        op[t] = "Complete" =>
            /\ pc[t] \in {"check", "compare"} => weight[t] = remainingCount
            /\ pc[t] = "unlock" =>
                /\ closed
                /\ remainingCount = 0
                /\ ret[t] \in {Nil, ErrCountDownLatchCompleted}
                /\ completeAtCall[t] => ret[t] = ErrCountDownLatchCompleted

C8_Step ==
    \A t \in Tasks :
        op[t] = "Complete" =>
            /\ Leaves(t, "check") =>
                  IF closed
                  THEN pc'[t] = "unlock"
                        /\ ret'[t] = ErrCountDownLatchCompleted
                  ELSE pc'[t] = "compare"
            /\ Leaves(t, "compare") => pc'[t] = "zero"
            /\ Leaves(t, "zero") =>
                  (remainingCount' = 0 /\ pc'[t] = "close")
            /\ Leaves(t, "close") =>
                  (~closed /\ closed' /\ pc'[t] = "unlock" /\ ret'[t] = Nil)

\* C8: Complete hands doCountDown the remaining count it reads under the
\* mutex; it returns nil having set remainingCount to 0 and closed the
\* channel, or ErrCountDownLatchCompleted when its select finds the channel
\* closed; either way the latch is complete with remainingCount 0 when it
\* returns, and a Complete called on a complete latch returns the error.
C8_Complete == [](C8_State) /\ [][C8_Step]_vars

\* C8 witness: Complete is returning nil on a latch created with the largest
\* count while another task's decrement call waits for the mutex.
C8_Witness ==
    \E t, u \in Tasks :
        /\ op[t] = "Complete"
        /\ pc[t] = "unlock"
        /\ ret[t] = Nil
        /\ initialCount = MaxUint
        /\ remainingCount = 0
        /\ closed
        /\ op[u] \in DecrementOps
        /\ pc[u] = "lock"

\* The steps of t's program from its next one on.
StepsLeft(t) == {todo[t][i] : i \in ip[t]..Len(todo[t])}

\* t has a call of operation o still to make, or one that has not returned.
Outstanding(t, o) ==
    \/ op[t] = o
    \/ \E step \in StepsLeft(t) : \E c \in step : c[1] = o

\* Every CountDown of the goroutines' programs has returned.
AllCountedDown == \A t \in Tasks : ~Outstanding(t, "CountDown")

\* C9: with N goroutines calling CountDown once each on a latch created with
\* count N, every CountDown returns nil and the channel is closed at most
\* once; when all N have returned it has been closed exactly once,
\* remainingCount is 0, a Count() returns 0, and the receive of every task
\* blocked in Wait is ready.
C9_CountDownN ==
    /\ ~panicked
    /\ closeCount <= 1
    /\ \A t \in Tasks :
        (op[t] = "CountDown" /\ pc[t] = "unlock") => ret[t] = Nil
    /\ AllCountedDown =>
        /\ closeCount = 1
        /\ closed
        /\ remainingCount = 0
        /\ \A t \in Tasks :
            /\ pc[t] = "wait" => ENABLED Wait(t)
            /\ (op[t] = "Count" /\ pc[t] = "unlock") => cnt[t] = 0

\* C9 witness: every task has called CountDown on a latch created with count
\* NumTasks >= 2, all the calls have returned, and a task is blocked in Wait
\* with the channel closed.
C9_Witness ==
    /\ initialCount = NumTasks
    /\ initialCount >= 2
    /\ AllCountedDown
    /\ \E t \in Tasks : pc[t] = "wait"

\* The weight of the WeightedCountDown among the calls of a step (0 if none).
StepWeight(step) ==
    IF \E c \in step : c[1] = "WeightedCountDown"
    THEN (CHOOSE c \in step : c[1] = "WeightedCountDown")[2]
    ELSE 0

\* The weights t's program counts down by, summed.
PlannedWeight(t) ==
    SumOver([i \in 1..Len(todo[t]) |-> StepWeight(todo[t][i])],
            1..Len(todo[t]))

\* S: the sum of the weights of all the goroutines' programs.
TotalWeight == SumOver([t \in Tasks |-> PlannedWeight(t)], Tasks)

\* The weight of t's program that has not been taken off the count yet.
UnappliedWeight(t) ==
    IF \/ \E step \in StepsLeft(t) : StepWeight(step) > 0
       \/ /\ op[t] = "WeightedCountDown"
          /\ pc[t] \in {"lock", "weight", "check", "compare", "subtract",
                        "zero"}
    THEN PlannedWeight(t)
    ELSE 0

\* Every WeightedCountDown of the goroutines' programs has returned.
AllWeighted == \A t \in Tasks : ~Outstanding(t, "WeightedCountDown")

\* C10: on a latch created with count n > 0, with positive weights of sum
\* S <= n applied by one WeightedCountDown each, every call returns nil,
\* remainingCount is at every moment n less the weights applied so far, and
\* when all calls have returned remainingCount (and the value of a Count()) is
\* n - S and the channel is closed if and only if S = n.
C10_WeightedSum ==
    /\ \A t \in Tasks :
        (op[t] = "WeightedCountDown" /\ pc[t] = "unlock") => ret[t] = Nil
    /\ remainingCount + TotalWeight
          = initialCount + SumOver([t \in Tasks |-> UnappliedWeight(t)], Tasks)
    /\ AllWeighted =>
        /\ remainingCount = initialCount - TotalWeight
        /\ closed <=> TotalWeight = initialCount
        /\ \A t \in Tasks :
            (op[t] = "Count" /\ pc[t] = "unlock") =>
                cnt[t] = initialCount - TotalWeight

\* C10 witness: two weights of sum less than n have been applied by calls
\* that have returned, and a Count() is returning n - S > 0.
C10_Witness ==
    /\ AllWeighted
    /\ Cardinality({t \in Tasks : PlannedWeight(t) > 0}) >= 2
    /\ TotalWeight < initialCount
    /\ \E t \in Tasks :
        /\ op[t] = "Count"
        /\ pc[t] = "unlock"
        /\ cnt[t] = initialCount - TotalWeight

\* Task t is blocked: in Wait, or in WaitTimeout with its timer not expired.
Blocked(t) ==
    \/ pc[t] = "wait"
    \/ pc[t] = "select" /\ timer[t] = "pending"

\* The receive or select task t is suspended in can proceed.
Released(t) ==
    \/ pc[t] = "wait" /\ ENABLED Wait(t)
    \/ pc[t] = "select" /\ ENABLED WaitTimeoutSelect(t)

C11_State ==
    \A t \in Tasks :
        /\ pc[t] = "subtract" => (weight[t] < remainingCount /\ ~closed)
        /\ (op[t] \in DecrementOps /\ pc[t] = "unlock" /\ ret[t] = Nil
                /\ ~closed) =>
              \A u \in Tasks : Blocked(u) => ~Released(u)

C11_Step ==
    \A t \in Tasks :
        /\ (Leaves(t, "compare") /\ weight[t] < remainingCount) =>
              pc'[t] = "subtract"
        /\ Leaves(t, "subtract") =>
              /\ remainingCount' = remainingCount - weight[t]
              /\ pc'[t] = "unlock"
              /\ ret'[t] = Nil
              /\ ~closed'
              /\ closeCount' = closeCount
              /\ \A u \in Tasks : Blocked(u) => pc'[u] = pc[u]

\* C11: a decrement whose weight is less than remainingCount takes the
\* subtract branch, takes exactly its weight off remainingCount (without
\* wrapping), returns nil, leaves the channel open, and no task blocked in
\* Wait or WaitTimeout is released by it.
C11_SubtractOnly == [](C11_State) /\ [][C11_Step]_vars

\* C11 witness: WeightedCountDown(1) on a latch of count above 1 is returning
\* nil with the count one less and the channel open, while another task is
\* blocked in Wait.
C11_Witness ==
    /\ ~closed
    /\ remainingCount = initialCount - 1
    /\ remainingCount > 0
    /\ \E t, u \in Tasks :
        /\ op[t] = "WeightedCountDown"
        /\ arg[t] = 1
        /\ pc[t] = "unlock"
        /\ ret[t] = Nil
        /\ pc[u] = "wait"

C12_State ==
    \A t \in Tasks :
        /\ (pc[t] = "wait" /\ remainingCount > 0) => ~ENABLED Wait(t)
        /\ (pc[t] = "done" /\ ret[t] \in {"void", "true"}) =>
              (closed /\ remainingCount = 0)

C12_Step ==
    \A t \in Tasks :
        /\ Leaves(t, "wait") => (closed /\ remainingCount = 0)
        /\ (Leaves(t, "select") /\ ret'[t] = "true") =>
              (closed /\ remainingCount = 0)

\* C12: Wait returns, and WaitTimeout returns true, only from states where
\* the channel is closed and remainingCount is 0; while remainingCount is
\* positive the receive of a task in Wait is not ready.
C12_NoEarlyRelease == [](C12_State) /\ [][C12_Step]_vars

\* C12 witness: a Wait that was called on an open latch of positive count has
\* returned after the count down completed.
C12_Witness ==
    /\ initialCount > 0
    /\ \E t \in Tasks :
        /\ op[t] = "Wait"
        /\ pc[t] = "done"
        /\ ~completeAtCall[t]

\* Task t is suspended in Wait's receive or WaitTimeout's select.
Waiting(t) == pc[t] \in {"wait", "select"}

LateWaitTimeout(t) == op[t] = "WaitTimeout" /\ completeAtCall[t]

\* C14: a WaitTimeout called on a latch whose channel was already closed
\* returns true, whatever its duration (<= 0 included), never false.
C14_TrueOnceComplete ==
    \A t \in Tasks : (LateWaitTimeout(t) /\ pc[t] = "done") => ret[t] = "true"

C15_State ==
    \A t \in Tasks :
        (op[t] = "WaitTimeout" /\ pc[t] = "done") =>
            ret[t] \in {"true", "false"}

C15_Step ==
    \A t \in Tasks :
        Leaves(t, "select") =>
            /\ pc'[t] = "done"
            /\ ret'[t] \in {"true", "false"}
            /\ ret'[t] = "true" => closed
            /\ ret'[t] = "false" => timer[t] = "fired"

\* C15: every WaitTimeout call that has entered its select eventually returns
\* (timers elapse and the scheduler is fair), with one boolean: true only if
\* the channel was closed when the select chose, false only if the timer had
\* fired, also when both were ready.
C15_OneOutcome ==
    /\ \A t \in Tasks : (pc[t] = "select") ~> (pc[t] = "done")
    /\ [](C15_State)
    /\ [][C15_Step]_vars

\* C15 witness: the race.  A WaitTimeout with a positive duration, called on
\* an open latch, is in its select with both the channel closed and its timer
\* fired.
C15_Witness ==
    \E t \in Tasks :
        /\ op[t] = "WaitTimeout"
        /\ arg[t] = 1
        /\ ~completeAtCall[t]
        /\ pc[t] = "select"
        /\ closed
        /\ timer[t] = "fired"

C16_State ==
    \A t \in Tasks :
        (LateWaitTimeout(t) /\ DecrementCloses = 1 /\ pc[t] = "done") =>
            ret[t] = "true"

C16_Step ==
    \A t \in Tasks :
        (op[t] = "WaitTimeout" /\ Leaves(t, "select") /\ ~closed) =>
            /\ ret'[t] = "false"
            /\ remainingCount' = remainingCount
            /\ closed' = closed

\* C16: a WaitTimeout whose select ends with the channel still open returns
\* false and changes neither remainingCount nor the channel, and a
\* WaitTimeout called after a decrement has completed the latch returns true.
C16_TimeoutThenTrue == [](C16_State) /\ [][C16_Step]_vars

\* C17: no timer of a WaitTimeout call that has returned is still pending.
C17_NoLeak == orphans = 0

C18_State ==
    /\ \A t \in Tasks : (m = t) <=> InCritical(t)
    /\ \A t \in Tasks : InCritical(t) => ENABLED Progress(t)
    /\ (\E t \in Tasks : pc[t] = "lock") =>
          \E u \in Tasks : ENABLED Lock(u) \/ ENABLED Progress(u)

C18_Step ==
    \A t \in Tasks :
        /\ Leaves(t, "unlock") => (m' = NoTask /\ pc'[t] = "idle")
        /\ (Leaves(t, "check") /\ closed) =>
              (pc'[t] = "unlock" /\ ret'[t] = ErrCountDownLatchCompleted)

C19_State ==
    \A t \in Tasks :
        (op[t] = "Count" /\ pc[t] = "unlock") =>
            /\ cnt[t] = remainingCount
            /\ cnt[t] <= initialCount

C19_Step ==
    \A t \in Tasks :
        /\ (op[t] = "Count" /\ pc'[t] # pc[t]) =>
              (remainingCount' = remainingCount /\ closed' = closed)
        /\ (op'[t] = "Count" /\ pc'[t] # pc[t]) =>
              (remainingCount' = remainingCount /\ closed' = closed)
        /\ Leaves(t, "read") =>
              (pc'[t] = "unlock" /\ cnt'[t] = remainingCount)

\* C19: no step of a Count call changes remainingCount or the channel; the
\* value Count returns is the value remainingCount has at its read, a step
\* between its call and its return, which remainingCount still has when the
\* call unlocks, and it is never above the count the latch was created with.
C19_CountSnapshot == [](C19_State) /\ [][C19_Step]_vars

\* C19 witness: a Count is returning a value strictly between 0 and the
\* initial count while a decrement of another task is waiting for the mutex.
C19_Witness ==
    \E t, u \in Tasks :
        /\ op[t] = "Count"
        /\ pc[t] = "unlock"
        /\ cnt[t] > 0
        /\ cnt[t] < initialCount
        /\ op[u] \in DecrementOps
        /\ pc[u] = "lock"

\* doCountDown run as one step on the state <<remaining r, fired f>> with
\* weight w: the state it leaves and the error it returns.
AtomicCountDown(r, f, w) ==
    IF f THEN [remaining |-> r, fired |-> TRUE,
               ret |-> ErrCountDownLatchCompleted]
    ELSE IF r > w THEN [remaining |-> r - w, fired |-> FALSE, ret |-> Nil]
    ELSE [remaining |-> 0, fired |-> TRUE, ret |-> Nil]

\* The signal of the atomic machine: fired once a decrement has set the
\* count to 0, the close of the channel following under the same lock.
AbsFired == closed \/ \E t \in Tasks : pc[t] = "close"

\* The atomic step the call of t stands for, taken on the current state.
AtomicCall(t) ==
    AtomicCountDown(remainingCount, AbsFired,
                    WeightOf(op[t], arg[t], remainingCount))

\* Task t takes the step at which its call takes effect: the read of Count,
\* the select of a decrement that finds the channel closed, the subtraction,
\* or the assignment of 0.
TakesEffect(t) ==
    \/ Leaves(t, "read")
    \/ Leaves(t, "check") /\ pc'[t] = "unlock"
    \/ Leaves(t, "subtract")
    \/ Leaves(t, "zero")

C20_Step ==
    /\ \A t \in Tasks :
        /\ Leaves(t, "read") =>
              /\ cnt'[t] = remainingCount
              /\ remainingCount' = remainingCount
              /\ AbsFired' = AbsFired
        /\ (Leaves(t, "check") /\ pc'[t] = "unlock") =>
              /\ ret'[t] = AtomicCall(t).ret
              /\ remainingCount' = AtomicCall(t).remaining
              /\ AbsFired' = AtomicCall(t).fired
              /\ AbsFired' = AbsFired
        /\ (Leaves(t, "check") /\ pc'[t] # "unlock") => ~AbsFired
        /\ Leaves(t, "subtract") =>
              /\ ret'[t] = AtomicCall(t).ret
              /\ remainingCount' = AtomicCall(t).remaining
              /\ AbsFired' = AtomicCall(t).fired
        /\ Leaves(t, "zero") =>
              /\ AtomicCall(t).ret = Nil
              /\ remainingCount' = AtomicCall(t).remaining
              /\ AbsFired' = AtomicCall(t).fired
        /\ Leaves(t, "close") => ret'[t] = Nil
    /\ (\A t \in Tasks : ~TakesEffect(t)) =>
          (remainingCount' = remainingCount /\ AbsFired' = AbsFired)

C20_State ==
    /\ (\A t \in Tasks : ~InCritical(t)) => (AbsFired <=> closed)
    /\ \A t \in Tasks :
        (op[t] \in DecrementOps /\ pc[t] = "unlock") =>
            /\ ret[t] \in {Nil, ErrCountDownLatchCompleted}
            /\ ret[t] = ErrCountDownLatchCompleted => closed

\* C20: every step of a concurrent execution either leaves the state
\* <<remainingCount, fired>> of the atomic machine alone or is the one step,
\* between a call's invocation and its return, at which that call takes
\* effect, changing the state and fixing the return value exactly as the
\* atomic doCountDown (or the read of Count) does on the state at that step.
C20_Refinement == [](C20_State) /\ [][C20_Step]_vars

\* C20 witness: two calls overlap.  One decrement has taken effect by
\* setting the count of a latch created with a positive count to 0 and has
\* not closed the channel yet, while another decrement, called before, waits
\* for the mutex.
C20_Witness ==
    /\ initialCount > 0
    /\ \E t, u \in Tasks :
        /\ pc[t] = "close"
        /\ ~closed
        /\ op[u] \in DecrementOps
        /\ pc[u] = "lock"
        /\ ~completeAtCall[u]

\* Every Count of t follows a Wait of t that has returned.
CountsAfterWait(t) == todo[t] = WaitThenCount(<<"Wait", 0>>)

C21_State ==
    \A t \in Tasks :
        (op[t] = "Count" /\ pc[t] = "unlock") =>
            /\ CountsAfterWait(t) => cnt[t] = 0
            /\ completeAtCall[t] => cnt[t] = 0

C21_Step ==
    /\ closed => closed'
    /\ \A t \in Tasks :
        /\ (Leaves(t, "select") /\ ret'[t] = "true") => closed
        /\ Leaves(t, "wait") => closed
        /\ (Leaves(t, "idle") /\ closed) => completeAtCall'[t]

\* C21: a Count called by a task after its Wait has returned returns 0; a
\* WaitTimeout returns true only with the channel closed, the channel stays
\* closed, and a Count called with the channel closed returns 0.
C21_ReleasedSeesZero == [](C21_State) /\ [][C21_Step]_vars

\* C21 witness: on a latch created with a positive count, a task whose Wait
\* has returned is returning 0 from the Count it called next.
C21_Witness ==
    /\ initialCount > 0
    /\ \E t \in Tasks :
        /\ CountsAfterWait(t)
        /\ op[t] = "Count"
        /\ pc[t] = "unlock"
        /\ cnt[t] = 0
        /\ ip[t] = 1

====
